---- MODULE Spec2Model ----
(***************************************************************************)
(* Model of the static reflection library in src/reflection.hpp together   *)
(* with the record types of src/main.cpp.                                  *)
(*                                                                         *)
(* Two layers are modelled:                                                *)
(*  - the declaration layer: the preprocessor expansion of REFLECTABLE     *)
(*    (COUNT_ARGS, GET_MACRO, APPLY_MACRO_TO_EACH_k, REFLECT_EACH) and the *)
(*    static_assert on the field count;                                    *)
(*  - the traversal layer: visit / _internal_visit / print / prettyPrint   *)
(*    executed one callback at a time over an explicit call stack.         *)
(***************************************************************************)
EXTENDS Integers, Sequences, FiniteSets, TLC

(***************************************************************************)
(* Bounds of the model.                                                    *)
(***************************************************************************)
\* Largest number of names listed in a REFLECTABLE(...) of a generated type.
MaxArgs == 34

(***************************************************************************)
(* Program constants.                                                      *)
(***************************************************************************)
\* Number of positional slots _1.._32 of COUNT_ARGS_IMPL and GET_MACRO.
Slots == 32
\* The literal the static_assert of REFLECTABLE compares the count against.
AssertBound == 32

(***************************************************************************)
(* Preprocessor tokens.  A macro argument is one token.                    *)
(***************************************************************************)
IdTok(s) == [kind |-> "id", num |-> 0, id |-> s]
NumTok(k) == [kind |-> "num", num |-> k, id |-> ""]
MacroTok(k) == [kind |-> "macro", num |-> k, id |-> ""]
EmptyTok == [kind |-> "empty", num |-> 0, id |-> ""]

\* `F(__VA_ARGS__, rest)`: an empty __VA_ARGS__ still leaves one (empty)
\* argument in front of the comma.
VA_ARGS(list) == IF list = <<>> THEN <<EmptyTok>> ELSE list

\* Variant: the result parameter N sits one slot too far.
COUNT_ARGS_IMPL_shifted(args) == args[Slots + 2]

\* COUNT_ARGS_IMPL(_1, ..., _32, N, ...) N
COUNT_ARGS_IMPL(args) == args[Slots + 1]

\* COUNT_ARGS(...) COUNT_ARGS_IMPL(__VA_ARGS__, 32, 31, ..., 1, 0)
COUNT_ARGS(va) ==
    COUNT_ARGS_IMPL(va \o [k \in 1..(Slots + 1) |-> NumTok(Slots + 1 - k)])

\* GET_MACRO(_1, ..., _32, NAME, ...) NAME
GET_MACRO(args) == args[Slots + 1]

\* The operator # applied to a macro argument: the spelling of the token.
Stringize(tok) == IF tok.kind = "id" THEN tok.id ELSE ""

\* Variant: the specialisations are numbered from 1.
REFLECT_EACH_onebased(dataMember, index) ==
    [index |-> index + 1,
     name |-> Stringize(dataMember),
     member |-> dataMember.id,
     ok |-> dataMember.kind = "id"]

\* REFLECT_EACH(dataMember, index): the partial specialisation
\* FieldData<index, Object> with name() = #dataMember, get() = self.dataMember.
\* It is well formed only when dataMember is an identifier.
REFLECT_EACH(dataMember, index) ==
    [index |-> index,
     name |-> Stringize(dataMember),
     member |-> dataMember.id,
     ok |-> dataMember.kind = "id"]

\* APPLY_MACRO_TO_EACH_k(macro, index, a, ...):
\*     macro(a, index) APPLY_MACRO_TO_EACH_(k-1)(macro, index + 1, ...)
RECURSIVE APPLY_MACRO_TO_EACH_k(_, _, _)
APPLY_MACRO_TO_EACH_k(k, index, args) ==
    IF k = 1
    THEN <<REFLECT_EACH(args[1], index)>>
    ELSE <<REFLECT_EACH(Head(args), index)>>
         \o APPLY_MACRO_TO_EACH_k(k - 1, index + 1, Tail(args))

\* APPLY_MACRO_TO_EACH(macro, ...):
\*     GET_MACRO(__VA_ARGS__, APPLY_MACRO_TO_EACH_32, ..., APPLY_MACRO_TO_EACH_1)
\*         (macro, 0, __VA_ARGS__)
\* When the selected NAME is one of the list's own identifiers the expansion
\* is not a macro call and the declaration does not compile.
APPLY_MACRO_TO_EACH(va) ==
    LET NAME == GET_MACRO(va \o [k \in 1..Slots |-> MacroTok(Slots + 1 - k)])
    IN  IF NAME.kind = "macro" /\ NAME.num = Len(va)
        THEN LET fs == APPLY_MACRO_TO_EACH_k(NAME.num, 0, va)
             IN  [ok |-> \A j \in 1..Len(fs) : fs[j].ok, fields |-> fs]
        ELSE [ok |-> FALSE, fields |-> <<>>]

(***************************************************************************)
(* The record types: those of src/main.cpp, the nested pair R1/R2, a type  *)
(* exposing two of five members out of layout order, a type without the    *)
(* macro, and generated types Wide(n) listing n members.                   *)
(***************************************************************************)
T(name) == [name |-> name, n |-> 0]
Wide(n) == [name |-> "Wide", n |-> n]
M(name, type) == [name |-> name, type |-> T(type)]

FieldNames ==
    << "f1", "f2", "f3", "f4", "f5", "f6", "f7", "f8", "f9", "f10",
       "f11", "f12", "f13", "f14", "f15", "f16", "f17", "f18", "f19", "f20",
       "f21", "f22", "f23", "f24", "f25", "f26", "f27", "f28", "f29", "f30",
       "f31", "f32", "f33", "f34", "f35", "f36", "f37", "f38", "f39", "f40" >>

NamedTypes == {"Point", "Private", "Data", "Points", "ManyPoints",
               "R1", "R2", "Five", "Plain"}

TypeIds == {T(s) : s \in NamedTypes} \cup {Wide(k) : k \in 0..MaxArgs}

\* The data members of a type, in layout order.
Members(t) ==
    CASE t.name = "Point"      -> << M("x", "float"), M("y", "float") >>
      [] t.name = "Private"    -> << M("x", "int[1]"), M("y", "size_t") >>
      [] t.name = "Data"       -> << M("foo", "string"), M("bar", "vector"),
                                     M("baz", "unordered_set") >>
      [] t.name = "Points"     -> << M("pt1", "Point"), M("pt2", "Point"),
                                     M("pt3", "Point") >>
      [] t.name = "ManyPoints" -> << M("points1", "Points"), M("pt", "Point"),
                                     M("x", "int"), M("y", "int"),
                                     M("points2", "Points") >>
      [] t.name = "R2"         -> << M("c", "int"), M("d", "int") >>
      [] t.name = "R1"         -> << M("a", "int"), M("b", "R2") >>
      [] t.name = "Five"       -> << M("m1", "int"), M("m2", "int"),
                                     M("m3", "int"), M("m4", "int"),
                                     M("m5", "int") >>
      [] t.name = "Plain"      -> << M("p", "int") >>
      [] t.name = "Wide"       -> [k \in 1..t.n |-> M(FieldNames[k], "int")]
      [] OTHER                 -> << >>

\* Whether the type's definition contains the REFLECTABLE macro.
HasMacro(t) == t \in TypeIds /\ t.name # "Plain"

\* The argument list of the type's REFLECTABLE(...), in written order.
Listed(t) ==
    CASE t.name = "Point"      -> << "x", "y" >>
      [] t.name = "Private"    -> << "x", "y" >>
      [] t.name = "Data"       -> << "foo", "baz" >>
      [] t.name = "Points"     -> << "pt1", "pt2", "pt3" >>
      [] t.name = "ManyPoints" -> << "points1", "pt", "x", "y", "points2" >>
      [] t.name = "R2"         -> << "c", "d" >>
      [] t.name = "R1"         -> << "a", "b" >>
      [] t.name = "Five"       -> << "m4", "m2" >>
      [] t.name = "Wide"       -> [k \in 1..t.n |-> FieldNames[k]]
      [] OTHER                 -> << >>

\* The reflectable type definitions a program with top-level type t
\* contains, in order of definition (member types first).
Unit(t) ==
    CASE t.name = "Points"     -> << T("Point"), T("Points") >>
      [] t.name = "ManyPoints" -> << T("Point"), T("Points"), T("ManyPoints") >>
      [] t.name = "R1"         -> << T("R2"), T("R1") >>
      [] OTHER                 -> IF HasMacro(t) THEN << t >> ELSE << >>

MemberNames(t) == {Members(t)[j].name : j \in 1..Len(Members(t))}

\* decltype(T::name) with cv and references removed.
MemberType(t, name) ==
    IF name \in MemberNames(t)
    THEN (CHOOSE m \in {Members(t)[j] : j \in 1..Len(Members(t))} :
              m.name = name).type
    ELSE T("")

(***************************************************************************)
(* REFLECTABLE(...): what the macro leaves in the type.                    *)
(***************************************************************************)
Undeclared == [state |-> "none", n |-> 0, fields |-> << >>]

REFLECTABLE(t, list) ==
    LET va == VA_ARGS([j \in 1..Len(list) |-> IdTok(list[j])])
        N == COUNT_ARGS(va)
        isConstant == N.kind = "num"
        assertHolds == isConstant /\ N.num < AssertBound
        each == APPLY_MACRO_TO_EACH(va)
        membersExist == \A j \in 1..Len(each.fields) :
                            each.fields[j].member \in MemberNames(t)
    IN  [state |-> IF assertHolds /\ each.ok /\ membersExist
                   THEN "accepted" ELSE "rejected",
         n |-> IF isConstant THEN N.num ELSE -1,
         fields |-> each.fields]

(***************************************************************************)
(* reflection::query and the field descriptor.                             *)
(***************************************************************************)
\* The deduced template argument of a forwarding reference T&& for an
\* argument expression: cv X& for an lvalue, cv X for an rvalue.
Deduce(expr) ==
    [const |-> expr.const, ref |-> IF expr.lvalue THEN "lvalue" ELSE "none"]

\* std::is_const_v<Object>: a reference type is never const-qualified.
is_const_v(Object) == Object.ref = "none" /\ Object.const

\* query::reflectable<T>(): requires { T::_reflection_fields_n; }
reflectable(d, t) == t \in DOMAIN d /\ d[t].state = "accepted"

\* query::getNumberOfFields<T>()
getNumberOfFields(d, t) == d[t].n

\* Variant: the descriptor of ordinal N is bound to the N-th member in
\* layout order instead of the N-th listed name.
getFieldData_layout(d, t, N, Object) ==
    IF N + 1 <= Len(Members(t))
    THEN [index |-> N, name |-> Members(t)[N + 1].name,
          member |-> Members(t)[N + 1].name,
          type |-> Members(t)[N + 1].type, Object |-> Object]
    ELSE [index |-> N, name |-> "", member |-> "",
          type |-> T(""), Object |-> Object]

\* query::getFieldData<N>(object): FieldData<N, T>(object).  Without a
\* specialisation for N the empty primary template is selected.
getFieldData(d, t, N, Object) ==
    LET fs == {d[t].fields[j] : j \in 1..Len(d[t].fields)}
        hit == {f \in fs : f.index = N}
    IN  IF hit # {}
        THEN LET f == CHOOSE f \in hit : TRUE
             IN  [index |-> N, name |-> f.name, member |-> f.member,
                  type |-> MemberType(t, f.member), Object |-> Object]
        ELSE [index |-> N, name |-> "", member |-> "",
              type |-> T(""), Object |-> Object]

\* FieldData(Object&& self) : self(self) {}
\* The member `Object&& self` is bound to the lvalue `self`; this is well
\* formed only when Object&& collapses to an lvalue reference.
FieldData_ctor_ok(Object) == Object.ref = "lvalue"

\* Variant: the two requires-clauses exchanged.
FieldData_get_swapped(Object) ==
    IF is_const_v(Object) THEN "const_ref" ELSE "mutable_ref"

\* FieldData::get(): the overload constrained by is_const_v<Object> returns
\* decltype(member)&, the other one returns decltype(member) const&.
FieldData_get(Object) ==
    IF is_const_v(Object) THEN "mutable_ref" ELSE "const_ref"

\* The expression fieldData.get(), as an argument expression.
GetExpr(Object) ==
    [const |-> FieldData_get(Object) = "const_ref", lvalue |-> TRUE]

\* Variant: the ordinals in descending order.
make_integer_sequence_reversed(n) == [k \in 1..n |-> n - k]

\* std::make_integer_sequence<std::size_t, n>: 0, 1, ..., n-1
make_integer_sequence(n) == [k \in 1..n |-> k - 1]

(***************************************************************************)
(* State.                                                                  *)
(***************************************************************************)
VARIABLES
    top,            \* the type of the instance the program reflects
    unit,           \* type definitions not yet processed
    decl,           \* per type: what REFLECTABLE left in it
    phase,          \* "declaring", "ready", "running", "done",
                    \* "rejected" (static_assert), "ill_formed"
    op,             \* the entry point called
    arg,            \* the instance expression: constness, value category
    hookNs,         \* namespace the hook functor types belong to
    stack,          \* activation records of visit / _internal_visit
    calls,          \* callback invocations so far, in order
    recursionDepth, \* prettyPrint's counter
    out             \* prettyPrint's output lines

vars == << top, unit, decl, phase, op, arg, hookNs, stack, calls,
           recursionDepth, out >>

Programs == TypeIds
Ops == {"visit", "visitHooks", "print", "prettyPrint"}
Exprs == [const : BOOLEAN, lvalue : BOOLEAN]
Namespaces == {"global", "reflection"}
NoExpr == [const |-> FALSE, lvalue |-> TRUE]

Init ==
    /\ top \in Programs
    /\ unit = Unit(top)
    /\ decl = [t \in TypeIds |-> Undeclared]
    /\ phase = IF Unit(top) = << >> THEN "ready" ELSE "declaring"
    /\ op = "none"
    /\ arg = NoExpr
    /\ hookNs = "none"
    /\ stack = << >>
    /\ calls = << >>
    /\ recursionDepth = 0
    /\ out = << >>

(***************************************************************************)
(* Declaration: the compiler processes the next type definition.           *)
(***************************************************************************)
Declare ==
    /\ phase = "declaring"
    /\ LET t == Head(unit)
           r == REFLECTABLE(t, Listed(t))
       IN  /\ decl' = [decl EXCEPT ![t] = r]
           /\ unit' = Tail(unit)
           /\ phase' = IF r.state = "rejected" THEN "rejected"
                       ELSE IF Tail(unit) = << >> THEN "ready"
                       ELSE "declaring"
    /\ UNCHANGED << top, op, arg, hookNs, stack, calls, recursionDepth, out >>

(***************************************************************************)
(* Traversal.                                                              *)
(***************************************************************************)
Frame(t, Object, path, internal) ==
    [type |-> t, Object |-> Object, path |-> path,
     ints |-> make_integer_sequence(getNumberOfFields(decl, t)),
     k |-> 1, internal |-> internal]

\* Variant: the top-level call treated as a nested one.
visit_frame_nested(t, Object) == Frame(t, Object, << >>, TRUE)

\* The activation of visit(func, enterFunc, exitFunc, x).
visit_frame(t, Object) == Frame(t, Object, << >>, FALSE)

\* Variant: the nested call is made on the enclosing object x instead of
\* on fieldData.get().
internal_visit_frame_self(t, Object, path) ==
    Frame(stack[Len(stack)].type, Object, path, TRUE)

\* Variant: the nested call does not run exitFunc.
internal_visit_frame_noexit(t, Object, path) == Frame(t, Object, path, FALSE)

\* The activation of _internal_visit(func, enterFunc, exitFunc, x).
internal_visit_frame(t, Object, path) == Frame(t, Object, path, TRUE)

Event(ev, fd, path) ==
    [ev |-> ev, name |-> fd.name, path |-> path, type |-> fd.type,
     access |-> FieldData_get(fd.Object)]

HookEvent(ev, t, path) ==
    [ev |-> ev, name |-> "", path |-> path, type |-> t, access |-> ""]

Line(indent, text, name, path) ==
    [indent |-> indent, text |-> text, name |-> name, path |-> path]

\* Whether the type has a field whose declared type is reflectable.
HasCompositeField(d, t) ==
    \E j \in 1..Len(d[t].fields) :
        reflectable(d, MemberType(t, d[t].fields[j].member))

\* The unqualified call _internal_visit(...) inside visit names a function
\* declared after visit, so only argument-dependent lookup at instantiation
\* can find it: some argument type must belong to namespace reflection.
\* The record types of the program live in the global namespace.
internal_visit_found(ns) == ns = "reflection"

\* Namespace of the hooks each entry point passes on.
HookNamespaces(o) == IF o = "visitHooks" THEN Namespaces ELSE {"reflection"}

\* The program calls one of print / prettyPrint / visit on its instance.
visit(o, x, ns) ==
    /\ phase = "ready"
    /\ op' = o
    /\ arg' = x
    /\ hookNs' = ns
    /\ LET Object == Deduce(x)
       IN  IF ~ reflectable(decl, top)
           THEN \* static_assert(isReflectable<T>(), ...)
                /\ phase' = "rejected"
                /\ UNCHANGED << stack, out >>
           ELSE IF \/ ~ FieldData_ctor_ok(Object)
                   \/ (HasCompositeField(decl, top) /\ ~ internal_visit_found(ns))
           THEN /\ phase' = "ill_formed"
                /\ UNCHANGED << stack, out >>
           ELSE /\ phase' = "running"
                /\ stack' = << visit_frame(top, Object) >>
                /\ out' = IF o = "prettyPrint"
                          THEN << Line(0, "{", "", << >>) >> ELSE << >>
    /\ UNCHANGED << top, unit, decl, calls, recursionDepth >>

Top == stack[Len(stack)]
Pending == Top.k <= Len(Top.ints)
Current == getFieldData(decl, Top.type, Top.ints[Top.k], Top.Object)
Advance(s) == [s EXCEPT ![Len(s)].k = @ + 1]

\* Variant: the leaf line is indented by the depth alone.
LeafIndent_depth(depth) == depth

\* prettyPrint's leaf lambda: `for (i = 0; i < recursionDepth + 1; ++i)`
\* writes one indentation unit per iteration.
LeafIndent(depth) == depth + 1

\* The lambda of visit/_internal_visit on a field whose type is not
\* reflectable: func(fieldData).
func ==
    /\ phase = "running"
    /\ Pending
    /\ ~ reflectable(decl, Current.type)
    /\ LET fd == Current
           p == Append(Top.path, fd.member)
       IN  /\ calls' = Append(calls, Event("leaf", fd, p))
           /\ out' = IF op = "prettyPrint"
                     THEN Append(out, Line(LeafIndent(recursionDepth), "leaf",
                                           fd.name, p))
                     ELSE out
    /\ stack' = Advance(stack)
    /\ UNCHANGED << top, unit, decl, phase, op, arg, hookNs, recursionDepth >>

\* The lambda on a field whose type is reflectable: _internal_visit is
\* entered with fieldData.get(); enterFunc() runs first.
internal_visit ==
    /\ phase = "running"
    /\ Pending
    /\ reflectable(decl, Current.type)
    /\ LET fd == Current
           p == Append(Top.path, fd.member)
       IN  /\ calls' = Append(calls, HookEvent("enter", fd.type, p))
           /\ stack' = Append(Advance(stack),
                              internal_visit_frame(fd.type,
                                                   Deduce(GetExpr(fd.Object)), p))
    /\ recursionDepth' = IF op = "prettyPrint"
                         THEN recursionDepth + 1 ELSE recursionDepth
    /\ out' = IF op = "prettyPrint"
              THEN Append(out, Line(recursionDepth + 1, "{", "", << >>))
              ELSE out
    /\ UNCHANGED << top, unit, decl, phase, op, arg, hookNs >>

\* The fold of an activation is exhausted.  _internal_visit runs exitFunc()
\* and returns to its caller; visit returns to the program.
return ==
    /\ phase = "running"
    /\ ~ Pending
    /\ calls' = IF Top.internal
                THEN Append(calls, HookEvent("exit", Top.type, Top.path))
                ELSE calls
    /\ stack' = SubSeq(stack, 1, Len(stack) - 1)
    /\ recursionDepth' = IF op = "prettyPrint" /\ Top.internal
                         THEN recursionDepth - 1 ELSE recursionDepth
    /\ out' = IF op # "prettyPrint" THEN out
              ELSE IF Top.internal
              THEN Append(out, Line(recursionDepth, "},", "", << >>))
              ELSE Append(out, Line(0, "}", "", << >>))
    /\ phase' = IF Len(stack) = 1 THEN "done" ELSE "running"
    /\ UNCHANGED << top, unit, decl, op, arg, hookNs >>

Next ==
    \/ Declare
    \/ \E o \in Ops, x \in Exprs : \E ns \in HookNamespaces(o) : visit(o, x, ns)
    \/ func
    \/ internal_visit
    \/ return

Spec == Init /\ [][Next]_vars

\* The traversal is one synchronous call on one thread: while an activation
\* has a step to take, the step is taken.
FairSpec ==
    /\ Spec
    /\ WF_vars(func)
    /\ WF_vars(internal_visit)
    /\ WF_vars(return)

(***************************************************************************)
(* Properties.                                                             *)
(***************************************************************************)
Active == phase \in {"running", "done"}
ListedSet(t) == {Listed(t)[j] : j \in 1..Len(Listed(t))}
Unlisted(t) == MemberNames(t) \ ListedSet(t)
Last(s) == s[Len(s)]
Front(s) == SubSeq(s, 1, Len(s) - 1)
IsPrefix(s, r) == Len(s) <= Len(r) /\ s = SubSeq(r, 1, Len(s))
Leaves(log) == SelectSeq(log, LAMBDA e : e.ev = "leaf")
Count(log, ev) == Len(SelectSeq(log, LAMBDA e : e.ev = ev))
LeafPathsOf(log) == [j \in 1..Len(Leaves(log)) |-> Leaves(log)[j].path]

\* The leaves of the listed fields j.. of type t, composites expanded in
\* place, identified by their member path from the instance.
RECURSIVE ExpandFrom(_, _, _)
ExpandFrom(t, prefix, j) ==
    IF j > Len(Listed(t)) THEN << >>
    ELSE LET nm == Listed(t)[j]
             p == Append(prefix, nm)
         IN  (IF HasMacro(MemberType(t, nm))
              THEN ExpandFrom(MemberType(t, nm), p, 1)
              ELSE << p >>)
             \o ExpandFrom(t, prefix, j + 1)

DepthFirstLeaves(t) == ExpandFrom(t, << >>, 1)

\* The number of composite fields of t over all nesting depths.
RECURSIVE CompositesFrom(_, _)
CompositesFrom(t, j) ==
    IF j > Len(Listed(t)) THEN 0
    ELSE (IF HasMacro(MemberType(t, Listed(t)[j]))
          THEN 1 + CompositesFrom(MemberType(t, Listed(t)[j]), 1)
          ELSE 0)
         + CompositesFrom(t, j + 1)

Composites(t) == CompositesFrom(t, 1)

\* C1: visit invokes the leaf callback exactly once per leaf of the fully
\* expanded instance, in depth-first declared order (at every moment the
\* leaves called so far are a prefix of that expansion, and all of it once
\* the call has returned), and never on a field of reflectable type.
C1_LeavesDepthFirst ==
    Active =>
        /\ IsPrefix(LeafPathsOf(calls), DepthFirstLeaves(top))
        /\ phase = "done" => LeafPathsOf(calls) = DepthFirstLeaves(top)
        /\ \A j \in 1..Len(calls) :
               calls[j].ev = "leaf" =>
                   /\ ~ HasMacro(calls[j].type)
                   /\ calls[j].name = Last(calls[j].path)

C1_Witness ==
    /\ phase = "done"
    /\ op = "visit"
    /\ top = T("ManyPoints")
    /\ Len(Leaves(calls)) = 16

\* Replays a callback log against a stack of open composites: an enter or
\* a leaf must belong to the innermost open composite (or to the instance
\* when none is open), an exit must close the innermost open composite.
RECURSIVE Replay(_, _, _)
Replay(log, j, open) ==
    IF j > Len(log) THEN [ok |-> TRUE, open |-> open]
    ELSE LET e == log[j]
             cur == IF open = << >> THEN << >> ELSE Last(open)
         IN  IF e.ev = "exit"
             THEN IF open # << >> /\ e.path = cur
                  THEN Replay(log, j + 1, Front(open))
                  ELSE [ok |-> FALSE, open |-> open]
             ELSE IF e.path # << >> /\ Front(e.path) = cur
                  THEN Replay(log, j + 1,
                              IF e.ev = "enter" THEN Append(open, e.path)
                              ELSE open)
                  ELSE [ok |-> FALSE, open |-> open]

\* C2: the enter and exit hook calls are well nested: every composite's
\* enter precedes the callbacks of its descendants, which precede its exit,
\* the innermost entered composite is the first one exited, and nothing is
\* left open when the call has returned.
C2_HooksWellNested ==
    Active =>
        LET r == Replay(calls, 1, << >>)
        IN  /\ r.ok
            /\ phase = "done" => r.open = << >>

C2_Witness ==
    /\ phase = "done"
    /\ op = "visitHooks"
    /\ top = T("ManyPoints")
    /\ \E j \in 1..Len(calls) :
           calls[j].ev = "enter" /\ Len(calls[j].path) = 2

Shape(log) == [j \in 1..Len(log) |-> << log[j].ev, log[j].name >>]

\* C3: when the call has returned, enterFunc and exitFunc have each run
\* exactly once per composite field over all depths (so never for the
\* instance itself and never for a leaf), and for R1{a, b: R2{c, d}} the
\* calls are exactly leaf(a), enter(), leaf(c), leaf(d), exit().
C3_HooksOncePerComposite ==
    Active =>
        /\ Count(calls, "exit") <= Count(calls, "enter")
        /\ Count(calls, "enter") <= Composites(top)
        /\ phase = "done" =>
               /\ Count(calls, "enter") = Composites(top)
               /\ Count(calls, "exit") = Composites(top)
               /\ top = T("R1") =>
                      Shape(calls) = << << "leaf", "a" >>, << "enter", "" >>,
                                        << "leaf", "c" >>, << "leaf", "d" >>,
                                        << "exit", "" >> >>

C3_Witness ==
    /\ phase = "done"
    /\ op = "visitHooks"
    /\ top = T("R1")
    /\ Len(calls) = 5

\* C4: for a mutable instance every descriptor's get() is a mutable
\* reference, through which the field can be written.
C4_MutableInstanceMutableGet ==
    (Active /\ ~ arg.const) =>
        \A j \in 1..Len(calls) :
            calls[j].ev = "leaf" => calls[j].access = "mutable_ref"

\* C5: when the instance passed to visit is const, every descriptor handed
\* to the leaf callback, at every depth, gives read-only access, and every
\* nested activation works on a const object.
C5_ConstPropagates ==
    (Active /\ arg.const) =>
        /\ \A j \in 1..Len(calls) :
               calls[j].ev = "leaf" => calls[j].access = "const_ref"
        /\ \A j \in 1..Len(stack) : stack[j].Object.const

C5_Witness ==
    /\ phase = "done"
    /\ arg.const
    /\ arg.lvalue
    /\ top = T("ManyPoints")
    /\ \E j \in 1..Len(calls) :
           calls[j].ev = "leaf" /\ Len(calls[j].path) = 3

\* C6: for every accepted type declared with a list of n names the field
\* count query returns n.
C6_CountIsListLength ==
    \A t \in TypeIds :
        decl[t].state = "accepted" =>
            getNumberOfFields(decl, t) = Len(Listed(t))

C6_Witness ==
    /\ decl[Wide(31)].state = "accepted"
    /\ getNumberOfFields(decl, Wide(31)) = 31

\* C7: for an accepted type declared with names m_0..m_{n-1} the ordinals of
\* the generated descriptors are exactly 0..n-1, and the descriptor of
\* ordinal i has name m_i and refers to member m_i, in every state (so
\* repeated lookups agree).
C7_OrdinalsAndNames ==
    \A t \in TypeIds :
        decl[t].state = "accepted" =>
            /\ Len(decl[t].fields) = Len(Listed(t))
            /\ {decl[t].fields[j].index : j \in 1..Len(decl[t].fields)}
                   = 0..(Len(Listed(t)) - 1)
            /\ \A i \in 0..(Len(Listed(t)) - 1) :
                   LET fd == getFieldData(decl, t, i, Deduce(arg))
                   IN  /\ fd.name = Listed(t)[i + 1]
                       /\ fd.member = Listed(t)[i + 1]

C7_Witness ==
    /\ decl[T("Five")].state = "accepted"
    /\ getFieldData(decl, T("Five"), 0, Deduce(arg)).name = "m4"
    /\ getFieldData(decl, T("Five"), 1, Deduce(arg)).name = "m2"

\* C8: a type declared with an empty list is accepted and reports field
\* count 0, and a visit of its instance returns without any leaf call.
C8_ZeroFieldsAccepted ==
    /\ decl[Wide(0)].state # "none" =>
           /\ decl[Wide(0)].state = "accepted"
           /\ getNumberOfFields(decl, Wide(0)) = 0
    /\ (top = Wide(0) /\ op # "none" /\ arg.lvalue) =>
           (Active /\ Count(calls, "leaf") = 0)

\* C9: a declaration listing n >= 1 names is rejected if and only if
\* n > 32; in particular 32 names are accepted and 33 are rejected.
C9_RejectedIffAbove32 ==
    \A k \in 1..MaxArgs :
        decl[Wide(k)].state # "none" =>
            (decl[Wide(k)].state = "rejected" <=> k > 32)

\* Whether no member on the path is an unlisted member of its owner.
RECURSIVE AvoidsUnlisted(_, _)
AvoidsUnlisted(t, path) ==
    \/ path = << >>
    \/ /\ Head(path) \notin Unlisted(t)
       /\ AvoidsUnlisted(MemberType(t, Head(path)), Tail(path))

\* The type owning the last member of a path that starts at type t.
RECURSIVE Owner(_, _)
Owner(t, path) ==
    IF Len(path) <= 1 THEN t ELSE Owner(MemberType(t, Head(path)), Tail(path))

\* C10: the field count of an accepted type is the number of listed names,
\* and no unlisted member is the name or the referent of a descriptor: not
\* in a lookup by ordinal, not in a callback of visit or print, not in a
\* line of prettyPrint.
C10_UnlistedNeverAppear ==
    /\ \A t \in TypeIds :
           decl[t].state = "accepted" =>
               /\ getNumberOfFields(decl, t) = Cardinality(ListedSet(t))
               /\ \A i \in 0..(getNumberOfFields(decl, t) - 1) :
                      LET fd == getFieldData(decl, t, i, Deduce(arg))
                      IN  /\ fd.name \notin Unlisted(t)
                          /\ fd.member \notin Unlisted(t)
    /\ \A j \in 1..Len(calls) :
           calls[j].ev = "leaf" =>
               /\ AvoidsUnlisted(top, calls[j].path)
               /\ calls[j].name \notin Unlisted(Owner(top, calls[j].path))
    /\ \A j \in 1..Len(out) :
           out[j].text = "leaf" =>
               /\ AvoidsUnlisted(top, out[j].path)
               /\ out[j].name \notin Unlisted(Owner(top, out[j].path))

C10_Witness ==
    /\ phase = "done"
    /\ op = "prettyPrint"
    /\ top = T("Five")
    /\ Len(out) = 4
    /\ Unlisted(top) = {"m1", "m3", "m5"}

\* The nesting depth of the declared field types of t: 0 when no listed
\* field has a reflectable type.
RECURSIVE NestingFrom(_, _)
NestingFrom(t, j) ==
    IF j > Len(Listed(t)) THEN 0
    ELSE LET mt == MemberType(t, Listed(t)[j])
             here == IF HasMacro(mt) THEN 1 + NestingFrom(mt, 1) ELSE 0
             rest == NestingFrom(t, j + 1)
         IN  IF here > rest THEN here ELSE rest

NestingDepth(t) == NestingFrom(t, 1)

\* C11: every call of an entry point that has started returns, and while
\* it runs the number of nested activations is one more than the number of
\* composites around the current field, hence at most one more than the
\* nesting depth of the declared types, whatever the instance.
C11_TerminatesWithinNesting ==
    /\ [](Active =>
            /\ Len(stack) <= 1 + NestingDepth(top)
            /\ \A j \in 1..Len(stack) : Len(stack[j].path) = j - 1)
    /\ (phase = "running") ~> (phase = "done")

C11_Witness ==
    /\ phase = "done"
    /\ op = "print"
    /\ top = T("ManyPoints")
    /\ NestingDepth(top) = 2
    /\ \E j \in 1..Len(calls) :
           calls[j].ev = "exit" /\ Len(calls[j].path) = 2

PrettyPrinting == Active /\ op = "prettyPrint"

\* prettyPrint's counter is the number of enterFunc calls minus the number
\* of exitFunc calls so far: 0 at the start and after the call has returned.
DepthTracksHooks ==
    /\ recursionDepth = Count(calls, "enter") - Count(calls, "exit")
    /\ calls = << >> => recursionDepth = 0
    /\ phase = "done" => recursionDepth = 0

\* C12 as stated: the counter tracks the hooks, and every leaf line is
\* indented by (current depth) units: 0 units for a leaf of the instance
\* itself, k units for a leaf inside k composites.
C12_LeafIndentIsDepth ==
    PrettyPrinting =>
        /\ DepthTracksHooks
        /\ (out # << >> /\ Last(out).text = "leaf") =>
               Last(out).indent = recursionDepth
        /\ \A j \in 1..Len(out) :
               out[j].text = "leaf" => out[j].indent = Len(out[j].path) - 1

\* C12 amended: the counter tracks the hooks, and every leaf line is
\* indented by (current depth + 1) units: 1 unit for a leaf of the instance
\* itself, k + 1 units for a leaf inside k composites.
C12_LeafIndentIsDepthPlusOne ==
    PrettyPrinting =>
        /\ DepthTracksHooks
        /\ (out # << >> /\ Last(out).text = "leaf") =>
               Last(out).indent = recursionDepth + 1
        /\ \A j \in 1..Len(out) :
               out[j].text = "leaf" => out[j].indent = Len(out[j].path)

C12_Witness ==
    /\ phase = "done"
    /\ op = "prettyPrint"
    /\ top = T("ManyPoints")
    /\ \E j \in 1..Len(out) :
           out[j].text = "leaf" /\ Len(out[j].path) = 1 /\ out[j].indent = 1
    /\ \E j \in 1..Len(out) :
           out[j].text = "leaf" /\ Len(out[j].path) = 3 /\ out[j].indent = 3

====
